---- MODULE Spec2Model ----
(***************************************************************************)
(* State-machine model of the snap-server request handlers                 *)
(* (src/server.py): the revision store (SaveProject / get_or_create /      *)
(* Revision.save) and the sharing graph (courses, rosters, project         *)
(* members and course-mediated shares).                                    *)
(*                                                                         *)
(* Scheduling.  main() serves the application with gevent's WSGI server    *)
(* (one greenlet per request) or, without gevent, with wsgiref (one        *)
(* request at a time).  A greenlet gives up control only at a cooperative  *)
(* I/O call.  sqlite3 calls are blocking C calls, so a handler that only   *)
(* talks to the database runs from auth() to session.commit() as one       *)
(* step.  SaveProject.on_post has two suspension points: reading the       *)
(* request body (req.stream.read(), line 943) and the write through        *)
(* FileObjectThread (fileProxy, line 13, used at line 157).  It is         *)
(* therefore modelled as three steps per request.  FileObjectThread hands  *)
(* the write to a thread of gevent's pool: the bytes reach the file either *)
(* from that thread, while the greenlet waits and others run, or when the  *)
(* greenlet resumes and drops the file object (which flushes it).  Both    *)
(* orders are modelled (SaveWrite is the thread's write).                  *)
(*                                                                         *)
(* Collections.  A relationship() is a list loaded from the rows of its     *)
(* association table.  remove takes out the first occurrence and raises     *)
(* ValueError when there is none.  append of an object that was loaded      *)
(* with the list lengthens the list in memory only: the flush at the        *)
(* commit inserts rows for the objects that were not in the loaded list     *)
(* and deletes rows for those no longer in it, so the next request loads    *)
(* the object once.  The state holds what the next request loads.           *)
(***************************************************************************)
EXTENDS Integers, Sequences, FiniteSets, TLC

\* ---------------------------------------------------------------- bounds
NumUsers == 2
NumCourses == 1
NumProjects == 2
NumPayloads == 2
NumNames == 2
NumReqs == 2
NumAssignments == 1
MaxChain == 2

Users == 1..NumUsers
Courses == 1..NumCourses
Projects == 1..NumProjects
Payloads == 1..NumPayloads
Names == 1..NumNames
Reqs == 1..NumReqs
Assignments == 1..NumAssignments

\* ------------------------------------------------------------- constants
\* Python None for Project.headId (a revision id is a non-empty sequence).
NoHead == << >>
\* Python None for Project.sharedName and for an absent sharedName parameter.
NoName == 0
\* Python None for Project.public, a Boolean column without a default.
NoFlag == "None"
\* formatHash(0): the prevId of the first revision of a chain.
ROOT == <<0>>
\* The content of a file just opened with mode 'w' and not yet written.
Truncated == 0

\* ------------------------------------------------------- Python list ops
InList(x, s) == \E i \in 1..Len(s) : s[i] = x

ListSet(s) == {s[i] : i \in 1..Len(s)}

FirstIndex(x, s) == CHOOSE i \in 1..Len(s) : s[i] = x /\ \A j \in 1..(i-1) : s[j] # x

\* append followed by a commit that inserts a row whatever was loaded.
ListAddAlways(s, x) == Append(s, x)

\* list.append followed by the commit: the rows of a secondary table are
\* written from the difference between the loaded and the current members
\* of the collection, so a row is inserted when x was not in the loaded list.
ListAdd(s, x) == IF InList(x, s) THEN s ELSE Append(s, x)

ListRemove(s, x) ==
    LET i == FirstIndex(x, s)
    IN  SubSeq(s, 1, i-1) \o SubSeq(s, i+1, Len(s))

\* ----------------------------------------------------------------- state
VARIABLES
    courseIds,      \* rows of table courses
    teachers,       \* Course.teachers, per course
    students,       \* Course.students, per course
    projStatus,     \* per project id: "free" (never used), "live", "deleted"
    owners,         \* Project.owners
    members,        \* Project.members
    headId,         \* Project.headId
    sharedName,     \* Project.sharedName
    teacherShares,  \* Project.course_shared_with_teachers
    studentShares,  \* Project.course_shared_with_students
    public,         \* Project.public
    assignments,    \* rows of table assignments
    submissions,    \* rows of table submissions
    revisions,      \* rows of table revisions: [revId, prevId]
    files,          \* storage directory: revId -> content
    req,            \* per worker: the SaveProject request in flight
    resp,           \* the response of the last completed database-only request
    nWrites,        \* per revId: how many times Revision.save ran for it
    nSaves,         \* per project: how many SaveProject requests committed
    pending         \* RemoveTeacher requests accepted and not yet handled

vars == << courseIds, teachers, students, projStatus, owners, members, headId,
           sharedName, teacherShares, studentShares, public, assignments,
           submissions, revisions, files, req, resp, nWrites, nSaves, pending >>

courseVars == << courseIds, teachers, students >>
projVars == << projStatus, owners, members, headId, sharedName,
               teacherShares, studentShares, public >>
gradeVars == << assignments, submissions >>
storeVars == << revisions, files, nWrites, nSaves >>

Live(p) == projStatus[p] = "live"

Response(op, status) == [op |-> op, status |-> status]

IdleReq ==
    [pc |-> "idle", proj |-> 0, head |-> NoHead, payload |-> 0, name |-> NoName,
     oldName |-> NoName, revId |-> NoHead, status |-> "none"]

Init ==
    /\ courseIds = {}
    /\ teachers = [c \in Courses |-> << >>]
    /\ students = [c \in Courses |-> << >>]
    /\ projStatus = [p \in Projects |-> "free"]
    /\ owners = [p \in Projects |-> << >>]
    /\ members = [p \in Projects |-> << >>]
    /\ headId = [p \in Projects |-> NoHead]
    /\ sharedName = [p \in Projects |-> NoName]
    /\ teacherShares = [p \in Projects |-> << >>]
    /\ studentShares = [p \in Projects |-> << >>]
    /\ public = [p \in Projects |-> NoFlag]
    /\ assignments = {}
    /\ submissions = {}
    /\ revisions = {}
    /\ files = << >>
    /\ req = [r \in Reqs |-> IdleReq]
    /\ resp = Response("none", "none")
    /\ nWrites = << >>
    /\ nSaves = [p \in Projects |-> 0]
    /\ pending = {}

\* ------------------------------------------------------ access decisions
\* canRead with line 249 testing course.students alone.
canReadStudentsOnly(u, p) ==
    IF InList(u, members[p]) THEN "True"
    ELSE IF InList(u, owners[p]) THEN "True"
    ELSE IF \E i \in 1..Len(teacherShares[p]) :
                InList(u, teachers[teacherShares[p][i]]) THEN "True"
    ELSE IF \E i \in 1..Len(studentShares[p]) :
                InList(u, students[studentShares[p][i]]) THEN "True"
    ELSE "None"

\* Project.canRead returns True or falls off the end (None).
canRead(u, p) ==
    IF InList(u, members[p]) THEN "True"
    ELSE IF InList(u, owners[p]) THEN "True"
    ELSE IF \E i \in 1..Len(teacherShares[p]) :
                InList(u, teachers[teacherShares[p][i]]) THEN "True"
    ELSE IF \E i \in 1..Len(studentShares[p]) :
                \/ InList(u, students[studentShares[p][i]])
                \/ InList(u, teachers[studentShares[p][i]]) THEN "True"
    ELSE "None"

Truthy(v) == v = "True"

\* The membership test made against project.owners.
IsOwnerOnly(u, p) == InList(u, owners[p])

\* UnShareProject without its test of toRemove against the owners.
IsOwnerNever(u, p) == FALSE

\* The tests against project.owners (UnCreateProject, UnShareProject).
IsOwner(u, p) == InList(u, owners[p])

\* The membership test answered from the members of any project.
IsMemberOfAny(u, p) == \E q \in Projects : InList(u, members[q])

\* The check every project handler makes: user in project.members.
IsMember(u, p) == InList(u, members[p])

\* The roster check letting the students of the course through as well.
IsTeacherOrStudent(u, c) == InList(u, teachers[c]) \/ InList(u, students[c])

\* The check every roster handler makes: user in course.teachers.
IsTeacher(u, c) == InList(u, teachers[c])

\* --------------------------------------------------------------- courses
\* CreateCourse without the append of its creator to course.teachers.
CreateCourseNoTeacher(u) ==
    /\ \E c \in Courses \ courseIds :
        /\ courseIds' = courseIds \cup {c}
        /\ teachers' = [teachers EXCEPT ![c] = << >>]
    /\ resp' = Response("createCourse", "ok")
    /\ UNCHANGED << students, projVars, storeVars, req, pending, gradeVars >>

\* generateCourseId draws a 160-bit number: c is an id no course has.
CreateCourse(u) ==
    /\ \E c \in Courses \ courseIds :
        /\ courseIds' = courseIds \cup {c}
        /\ teachers' = [teachers EXCEPT ![c] = <<u>>]
    /\ resp' = Response("createCourse", "ok")
    /\ UNCHANGED << students, projVars, storeVars, req, pending, gradeVars >>

AddStudent(u, c, s) ==
    /\ IF c \notin courseIds
       THEN resp' = Response("addStudent", "NoSuchCourse") /\ UNCHANGED students
       ELSE IF ~IsTeacher(u, c)
       THEN resp' = Response("addStudent", "NotAuthorized") /\ UNCHANGED students
       ELSE /\ students' = [students EXCEPT ![c] = ListAdd(@, s)]
            /\ resp' = Response("addStudent", "ok")
    /\ UNCHANGED << courseIds, teachers, projVars, storeVars, req, pending, gradeVars >>

AddTeacher(u, c, t) ==
    /\ IF c \notin courseIds
       THEN resp' = Response("addTeacher", "NoSuchCourse") /\ UNCHANGED teachers
       ELSE IF ~IsTeacher(u, c)
       THEN resp' = Response("addTeacher", "NotAuthorized") /\ UNCHANGED teachers
       ELSE /\ teachers' = [teachers EXCEPT ![c] = ListAdd(@, t)]
            /\ resp' = Response("addTeacher", "ok")
    /\ UNCHANGED << courseIds, students, projVars, storeVars, req, pending, gradeVars >>

Enroll(u, c) ==
    /\ IF c \notin courseIds
       THEN resp' = Response("enroll", "NoSuchCourse") /\ UNCHANGED students
       ELSE /\ students' = [students EXCEPT ![c] = ListAdd(@, u)]
            /\ resp' = Response("enroll", "ok")
    /\ UNCHANGED << courseIds, teachers, projVars, storeVars, req, pending, gradeVars >>

RemoveStudent(u, c, s) ==
    /\ IF c \notin courseIds
       THEN resp' = Response("removeStudent", "NoSuchCourse") /\ UNCHANGED students
       ELSE IF ~IsTeacher(u, c)
       THEN resp' = Response("removeStudent", "NotAuthorized") /\ UNCHANGED students
       ELSE IF ~InList(s, students[c])
       THEN resp' = Response("removeStudent", "UserLogicError") /\ UNCHANGED students
       ELSE /\ students' = [students EXCEPT ![c] = ListRemove(@, s)]
            /\ resp' = Response("removeStudent", "ok")
    /\ UNCHANGED << courseIds, teachers, projVars, storeVars, req, pending, gradeVars >>

\* The floor test comparing with 0 instead of 1.
AtTeacherFloorOff(c) == Len(teachers[c]) = 0

\* RemoveTeacher without its floor test.
AtTeacherFloorNever(c) == FALSE

\* The floor test of RemoveTeacher: len(course.teachers) == 1.
AtTeacherFloor(c) == Len(teachers[c]) = 1

\* RemoveTeacher.on_get from the first statement to the commit.
RemoveTeacherBody(u, c, t) ==
    /\ IF c \notin courseIds
       THEN resp' = Response("removeTeacher", "NoSuchCourse") /\ UNCHANGED teachers
       ELSE IF ~IsTeacher(u, c)
       THEN resp' = Response("removeTeacher", "NotAuthorized") /\ UNCHANGED teachers
       ELSE IF AtTeacherFloor(c)
       THEN resp' = Response("removeTeacher", "NotPermitted") /\ UNCHANGED teachers
       ELSE IF ~InList(t, teachers[c])
       THEN resp' = Response("removeTeacher", "UserLogicError") /\ UNCHANGED teachers
       ELSE /\ teachers' = [teachers EXCEPT ![c] = ListRemove(@, t)]
            /\ resp' = Response("removeTeacher", "ok")
    /\ UNCHANGED << courseIds, students, projVars, storeVars, req, gradeVars >>

RemoveTeacher(u, c, t) ==
    /\ RemoveTeacherBody(u, c, t)
    /\ UNCHANGED pending

UnEnroll(u, c) ==
    /\ IF c \notin courseIds
       THEN resp' = Response("unenroll", "NoSuchCourse") /\ UNCHANGED students
       ELSE IF ~InList(u, students[c])
       THEN resp' = Response("unenroll", "UserLogicError") /\ UNCHANGED students
       ELSE /\ students' = [students EXCEPT ![c] = ListRemove(@, u)]
            /\ resp' = Response("unenroll", "ok")
    /\ UNCHANGED << courseIds, teachers, projVars, storeVars, req, pending, gradeVars >>

\* ListStudents.on_get answers with an empty success element (line 829
\* sends xmlSuccess(), not the element the loop filled).
ListStudents(u, c) ==
    /\ IF c \notin courseIds
       THEN resp' = Response("listStudents", "NoSuchCourse")
       ELSE IF ~IsTeacher(u, c)
       THEN resp' = Response("listStudents", "NotAuthorized")
       ELSE resp' = Response("listStudents", "ok")
    /\ UNCHANGED << courseVars, projVars, storeVars, req, pending, gradeVars >>

\* CreateAssignment.on_get never calls auth: after the course is found,
\* "user not in course.teachers" reads a name that is bound nowhere and
\* raises NameError.  No assignment row is ever added.
CreateAssignment(u, c) ==
    /\ IF c \notin courseIds
       THEN resp' = Response("createAssignment", "NoSuchCourse")
       ELSE resp' = Response("createAssignment", "ServerError")
    /\ UNCHANGED << courseVars, projVars, storeVars, req, pending, gradeVars >>

\* SubmitProject.on_get: Assignment.fromRequest, Project.fromRequest, the
\* membership test, then assignment.course.students, where
\* assignment.course is a list of courses and has no attribute students
\* (AttributeError).  No submission row is ever added.
SubmitProject(u, a, p) ==
    /\ IF a \notin assignments
       THEN resp' = Response("submitProject", "NoSuchAssignment")
       ELSE IF ~Live(p)
       THEN resp' = Response("submitProject", "NoSuchProject")
       ELSE IF ~IsMember(u, p)
       THEN resp' = Response("submitProject", "NotAuthorized")
       ELSE resp' = Response("submitProject", "ServerError")
    /\ UNCHANGED << courseVars, projVars, storeVars, req, pending, gradeVars >>

\* -------------------------------------------------------------- projects
\* CreateProject entering its creator among the owners only.
CreateProjectOwnerOnly(u, p) ==
    /\ projStatus[p] = "free"
    /\ projStatus' = [projStatus EXCEPT ![p] = "live"]
    /\ owners' = [owners EXCEPT ![p] = <<u>>]
    /\ members' = [members EXCEPT ![p] = << >>]
    /\ public' = [public EXCEPT ![p] = NoFlag]
    /\ resp' = Response("createProject", "ok")
    /\ UNCHANGED << headId, sharedName, teacherShares, studentShares,
                    courseVars, storeVars, req, pending, gradeVars >>

\* generateProjId draws a 160-bit number: p is an id no project has had.
CreateProject(u, p) ==
    /\ projStatus[p] = "free"
    /\ projStatus' = [projStatus EXCEPT ![p] = "live"]
    /\ owners' = [owners EXCEPT ![p] = <<u>>]
    /\ members' = [members EXCEPT ![p] = <<u>>]
    /\ public' = [public EXCEPT ![p] = NoFlag]
    /\ resp' = Response("createProject", "ok")
    /\ UNCHANGED << headId, sharedName, teacherShares, studentShares,
                    courseVars, storeVars, req, pending, gradeVars >>

\* UnCreateProject deleting the head revision along with the project.
UnCreateProjectCascade(u, p) ==
    /\ IF ~Live(p)
       THEN resp' = Response("uncreateProject", "NoSuchProject")
            /\ UNCHANGED << projVars, revisions >>
       ELSE IF ~InList(u, owners[p])
       THEN resp' = Response("uncreateProject", "NotAuthorized")
            /\ UNCHANGED << projVars, revisions >>
       ELSE /\ projStatus' = [projStatus EXCEPT ![p] = "deleted"]
            /\ owners' = [owners EXCEPT ![p] = << >>]
            /\ members' = [members EXCEPT ![p] = << >>]
            /\ headId' = [headId EXCEPT ![p] = NoHead]
            /\ sharedName' = [sharedName EXCEPT ![p] = NoName]
            /\ teacherShares' = [teacherShares EXCEPT ![p] = << >>]
            /\ studentShares' = [studentShares EXCEPT ![p] = << >>]
            /\ public' = [public EXCEPT ![p] = NoFlag]
            /\ revisions' = {row \in revisions : row.revId # headId[p]}
            /\ resp' = Response("uncreateProject", "ok")
    /\ UNCHANGED << courseVars, files, nWrites, nSaves, req, pending, gradeVars >>

\* session.delete(project): the row and its association rows go.
UnCreateProject(u, p) ==
    /\ IF ~Live(p)
       THEN resp' = Response("uncreateProject", "NoSuchProject") /\ UNCHANGED projVars
       ELSE IF ~IsOwner(u, p)
       THEN resp' = Response("uncreateProject", "NotAuthorized") /\ UNCHANGED projVars
       ELSE /\ projStatus' = [projStatus EXCEPT ![p] = "deleted"]
            /\ owners' = [owners EXCEPT ![p] = << >>]
            /\ members' = [members EXCEPT ![p] = << >>]
            /\ headId' = [headId EXCEPT ![p] = NoHead]
            /\ sharedName' = [sharedName EXCEPT ![p] = NoName]
            /\ teacherShares' = [teacherShares EXCEPT ![p] = << >>]
            /\ studentShares' = [studentShares EXCEPT ![p] = << >>]
            /\ public' = [public EXCEPT ![p] = NoFlag]
            /\ resp' = Response("uncreateProject", "ok")
    /\ UNCHANGED << courseVars, storeVars, req, pending, gradeVars >>

ShareProject(u, p, n) ==
    /\ IF ~Live(p)
       THEN resp' = Response("shareProject", "NoSuchProject") /\ UNCHANGED members
       ELSE IF ~IsMember(u, p)
       THEN resp' = Response("shareProject", "NotAuthorized") /\ UNCHANGED members
       ELSE /\ members' = [members EXCEPT ![p] = ListAdd(@, n)]
            /\ resp' = Response("shareProject", "ok")
    /\ UNCHANGED << projStatus, owners, headId, sharedName, teacherShares,
                    studentShares, public, courseVars, storeVars, req, pending, gradeVars >>

\* project.members.remove(toRemove) is not guarded: a ValueError leaves the
\* handler as an unclassified exception (handle_exception, HTTP 500).
UnShareProject(u, p, t) ==
    /\ IF ~Live(p)
       THEN resp' = Response("unshareProject", "NoSuchProject") /\ UNCHANGED members
       ELSE IF ~IsMember(u, p)
       THEN resp' = Response("unshareProject", "NotAuthorized") /\ UNCHANGED members
       ELSE IF IsOwner(t, p)
       THEN resp' = Response("unshareProject", "NotAuthorized") /\ UNCHANGED members
       ELSE IF ~InList(t, members[p])
       THEN resp' = Response("unshareProject", "ServerError") /\ UNCHANGED members
       ELSE /\ members' = [members EXCEPT ![p] = ListRemove(@, t)]
            /\ resp' = Response("unshareProject", "ok")
    /\ UNCHANGED << projStatus, owners, headId, sharedName, teacherShares,
                    studentShares, public, courseVars, storeVars, req, pending, gradeVars >>

ShareProjectWithStudents(u, p, c) ==
    /\ IF ~Live(p)
       THEN resp' = Response("shareProjectWithStudents", "NoSuchProject")
            /\ UNCHANGED studentShares
       ELSE IF ~IsMember(u, p)
       THEN resp' = Response("shareProjectWithStudents", "NotAuthorized")
            /\ UNCHANGED studentShares
       ELSE IF c \notin courseIds
       THEN resp' = Response("shareProjectWithStudents", "NoSuchCourse")
            /\ UNCHANGED studentShares
       ELSE IF ~IsTeacher(u, c)
       THEN resp' = Response("shareProjectWithStudents", "NotAuthorized")
            /\ UNCHANGED studentShares
       ELSE /\ studentShares' = [studentShares EXCEPT ![p] = ListAdd(@, c)]
            /\ resp' = Response("shareProjectWithStudents", "ok")
    /\ UNCHANGED << projStatus, owners, members, headId, sharedName,
                    teacherShares, public, courseVars, storeVars, req, pending, gradeVars >>

ShareProjectWithTeachers(u, p, c) ==
    /\ IF ~Live(p)
       THEN resp' = Response("shareProjectWithTeachers", "NoSuchProject")
            /\ UNCHANGED teacherShares
       ELSE IF ~IsMember(u, p)
       THEN resp' = Response("shareProjectWithTeachers", "NotAuthorized")
            /\ UNCHANGED teacherShares
       ELSE IF c \notin courseIds
       THEN resp' = Response("shareProjectWithTeachers", "NoSuchCourse")
            /\ UNCHANGED teacherShares
       ELSE IF ~InList(u, students[c]) /\ ~InList(u, teachers[c])
       THEN resp' = Response("shareProjectWithTeachers", "NotAuthorized")
            /\ UNCHANGED teacherShares
       ELSE /\ teacherShares' = [teacherShares EXCEPT ![p] = ListAdd(@, c)]
            /\ resp' = Response("shareProjectWithTeachers", "ok")
    /\ UNCHANGED << projStatus, owners, members, headId, sharedName,
                    studentShares, public, courseVars, storeVars, req, pending, gradeVars >>

\* "user not in project.members and user not in project.teachers": Project
\* has no attribute teachers, so the second operand raises AttributeError
\* whenever it is evaluated, that is, whenever the user is not a member.
UnShareProjectWithStudents(u, p, c) ==
    /\ IF ~Live(p)
       THEN resp' = Response("unshareProjectWithStudents", "NoSuchProject")
            /\ UNCHANGED studentShares
       ELSE IF ~IsMember(u, p)
       THEN resp' = Response("unshareProjectWithStudents", "ServerError")
            /\ UNCHANGED studentShares
       ELSE IF c \notin courseIds
       THEN resp' = Response("unshareProjectWithStudents", "NoSuchCourse")
            /\ UNCHANGED studentShares
       ELSE IF ~InList(c, studentShares[p])
       THEN resp' = Response("unshareProjectWithStudents", "UserLogicError")
            /\ UNCHANGED studentShares
       ELSE /\ studentShares' = [studentShares EXCEPT ![p] = ListRemove(@, c)]
            /\ resp' = Response("unshareProjectWithStudents", "ok")
    /\ UNCHANGED << projStatus, owners, members, headId, sharedName,
                    teacherShares, public, courseVars, storeVars, req, pending, gradeVars >>

UnShareProjectWithTeachers(u, p, c) ==
    /\ IF ~Live(p)
       THEN resp' = Response("unshareProjectWithTeachers", "NoSuchProject")
            /\ UNCHANGED teacherShares
       ELSE IF ~IsMember(u, p)
       THEN resp' = Response("unshareProjectWithTeachers", "NotAuthorized")
            /\ UNCHANGED teacherShares
       ELSE IF c \notin courseIds
       THEN resp' = Response("unshareProjectWithTeachers", "NoSuchCourse")
            /\ UNCHANGED teacherShares
       ELSE IF ~InList(c, teacherShares[p])
       THEN resp' = Response("unshareProjectWithTeachers", "UserLogicError")
            /\ UNCHANGED teacherShares
       ELSE /\ teacherShares' = [teacherShares EXCEPT ![p] = ListRemove(@, c)]
            /\ resp' = Response("unshareProjectWithTeachers", "ok")
    /\ UNCHANGED << projStatus, owners, members, headId, sharedName,
                    studentShares, public, courseVars, storeVars, req, pending, gradeVars >>

MakePublic(u, p) ==
    /\ IF ~Live(p)
       THEN resp' = Response("makePublic", "NoSuchProject") /\ UNCHANGED public
       ELSE IF ~IsMember(u, p)
       THEN resp' = Response("makePublic", "NotAuthorized") /\ UNCHANGED public
       ELSE /\ public' = [public EXCEPT ![p] = "True"]
            /\ resp' = Response("makePublic", "ok")
    /\ UNCHANGED << projStatus, owners, members, headId, sharedName, teacherShares,
                    studentShares, courseVars, storeVars, req, pending, gradeVars >>

UnMakePublic(u, p) ==
    /\ IF ~Live(p)
       THEN resp' = Response("unmakePublic", "NoSuchProject") /\ UNCHANGED public
       ELSE IF ~IsMember(u, p)
       THEN resp' = Response("unmakePublic", "NotAuthorized") /\ UNCHANGED public
       ELSE /\ public' = [public EXCEPT ![p] = "False"]
            /\ resp' = Response("unmakePublic", "ok")
    /\ UNCHANGED << projStatus, owners, members, headId, sharedName, teacherShares,
                    studentShares, courseVars, storeVars, req, pending, gradeVars >>

\* The guard of LoadProject.on_get: user in project.members.
LoadGuard(u, p) == IsMember(u, p)

\* Project.toXML: owners, members, the URI of the head when there is a head,
\* the shared name when there is one.  An unset head leaves the URI out.
ProjectXML(p) ==
    [op |-> "loadProject", status |-> "ok", owners |-> owners[p],
     members |-> members[p], uri |-> headId[p], sharedName |-> sharedName[p]]

LoadProject(u, p) ==
    /\ IF ~Live(p)
       THEN resp' = Response("loadProject", "NoSuchProject")
       ELSE IF ~LoadGuard(u, p)
       THEN resp' = Response("loadProject", "NotAuthorized")
       ELSE resp' = ProjectXML(p)
    /\ UNCHANGED << courseVars, projVars, storeVars, req, pending, gradeVars >>

\* ------------------------------------------------------- revision store
\* sha1 over the contents alone.
HashContentsOnly(prevId, contents) == Append(ROOT, contents)

\* sha1 over prevId followed by the contents (lines 950-953).  prevId has
\* the fixed width HASH_ID_LEN, so the hashed string determines the pair;
\* SHA-1 is taken as collision free and an id is written as its preimage.
Hash(prevId, contents) == Append(prevId, contents)

Depth(h) == IF h = NoHead THEN 0 ELSE Len(h) - 1

RevIds == {row.revId : row \in revisions}

Count(f, k) == IF k \in DOMAIN f THEN f[k] ELSE 0

Put(f, k, v) == IF k \in DOMAIN f THEN [f EXCEPT ![k] = v] ELSE f @@ (k :> v)

\* get_or_create whose query never finds a row.
RevisionExistsNever(revId, prevId) == FALSE

\* get_or_create(session, Revision, revId=revId, prevId=prevId): the query
\* filter_by(revId, prevId).first() against the committed rows.
RevisionExists(revId, prevId) ==
    \E row \in revisions : row.revId = revId /\ row.prevId = prevId

Finished(status, revId) == [IdleReq EXCEPT !.status = status, !.revId = revId]

\* Lines 939-943: auth, Project.fromRequest, the membership test, then the
\* greenlet waits for the request body.  The session keeps the project row
\* as loaded here (headId, sharedName) for the rest of the request.
SaveBegin(r, u, p, contents, name) ==
    /\ req[r].pc = "idle"
    /\ IF ~Live(p)
       THEN req' = [req EXCEPT ![r] = Finished("NoSuchProject", NoHead)]
       ELSE IF ~IsMember(u, p)
       THEN req' = [req EXCEPT ![r] = Finished("NotAuthorized", NoHead)]
       ELSE /\ Depth(headId[p]) < MaxChain
            /\ req' = [req EXCEPT ![r] =
                    [pc |-> "body", proj |-> p, head |-> headId[p],
                     payload |-> contents, name |-> name, oldName |-> sharedName[p],
                     revId |-> NoHead, status |-> "none"]]
    /\ UNCHANGED << courseVars, projVars, storeVars, resp, pending, gradeVars >>

\* get_or_create without session.add(instance).
NewRowsLost(rq, created) == {}

\* session.add(instance) in get_or_create (line 597): the row the commit
\* inserts.
NewRows(rq, created) ==
    IF created THEN {[revId |-> rq.revId, prevId |-> rq.prevId]} ELSE {}

\* CommitFails with a version check: the commit also fails when the head is
\* no longer the one the request loaded.
CommitFailsStale(rq, created) ==
    \/ created /\ rq.revId \in RevIds
    \/ ~Live(rq.proj)
    \/ (IF headId[rq.proj] # NoHead THEN headId[rq.proj] ELSE ROOT) # rq.prevId

\* What makes session.commit() of a SaveProject request raise: the INSERT of
\* a revision row whose revId is taken (IntegrityError), or the UPDATE of a
\* project row that is gone (StaleDataError).
CommitFails(rq, created) ==
    \/ created /\ rq.revId \in RevIds
    \/ ~Live(rq.proj)

\* session.commit() of a SaveProject request (line 50): INSERT of the new
\* revision row when one was created, then UPDATE of the project row.  The
\* UPDATE carries headId and, when the parameter changed it, sharedName.
\* A failure rolls the transaction back (line 52) and the request ends in
\* handle_exception.
CommitSave(r, rq, created) ==
    IF CommitFails(rq, created)
    THEN /\ req' = [req EXCEPT ![r] = Finished("ServerError", rq.revId)]
         /\ UNCHANGED << revisions, headId, sharedName, nSaves >>
    ELSE /\ revisions' = revisions \cup NewRows(rq, created)
         /\ headId' = [headId EXCEPT ![rq.proj] = rq.revId]
         /\ sharedName' = IF rq.name # NoName /\ rq.name # rq.oldName
                          THEN [sharedName EXCEPT ![rq.proj] = rq.name]
                          ELSE sharedName
         /\ nSaves' = [nSaves EXCEPT ![rq.proj] = @ + 1]
         /\ req' = [req EXCEPT ![r] = Finished("ok", rq.revId)]

\* prevId left at formatHash(0) whatever the head.
PrevIdAlwaysRoot(head) == ROOT

\* Lines 944-949: prevId is formatHash(0) unless the project has a head.
PrevIdOf(head) == IF head # NoHead THEN head ELSE ROOT

\* The request with its local variables prevId and revId (lines 944-953).
Hashed(rq) ==
    [proj |-> rq.proj, payload |-> rq.payload, name |-> rq.name,
     oldName |-> rq.oldName, prevId |-> PrevIdOf(rq.head),
     revId |-> Hash(PrevIdOf(rq.head), rq.payload)]

\* Lines 944-961 after the body has arrived.  When get_or_create finds the
\* row the request runs on to the commit; when it creates one, Revision.save
\* opens the file with mode 'w' (which empties it) and the greenlet waits
\* for the write.
SaveStore(r) ==
    /\ req[r].pc = "body"
    /\ LET rq == Hashed(req[r])
           created == ~RevisionExists(rq.revId, rq.prevId)
       IN  IF created
           THEN /\ files' = Put(files, rq.revId, Truncated)
                /\ nWrites' = Put(nWrites, rq.revId, Count(nWrites, rq.revId) + 1)
                /\ req' = [req EXCEPT ![r] = [@ EXCEPT !.pc = "write", !.revId = rq.revId]]
                /\ UNCHANGED << revisions, headId, sharedName, nSaves >>
           ELSE /\ CommitSave(r, rq, FALSE)
                /\ UNCHANGED << files, nWrites >>
    /\ UNCHANGED << courseVars, projStatus, owners, members, teacherShares,
                    studentShares, public, resp, pending, gradeVars >>

\* The pool thread writes the bytes while the greenlet of the request waits.
SaveWrite(r) ==
    /\ req[r].pc = "write"
    /\ files' = Put(files, req[r].revId, req[r].payload)
    /\ req' = [req EXCEPT ![r] = [@ EXCEPT !.pc = "written"]]
    /\ UNCHANGED << courseVars, projVars, revisions, nWrites, nSaves, resp, pending, gradeVars >>

\* The write returns, the file object is dropped (which flushes what the
\* thread has not written), and the with block of session_scope commits.
SaveCommit(r) ==
    /\ req[r].pc \in {"write", "written"}
    /\ LET rq == Hashed(req[r])
       IN  /\ files' = IF req[r].pc = "write"
                       THEN Put(files, rq.revId, rq.payload)
                       ELSE files
           /\ CommitSave(r, rq, TRUE)
    /\ UNCHANGED << courseVars, projStatus, owners, members, teacherShares,
                    studentShares, public, resp, pending, nWrites, gradeVars >>

\* GetRevision.on_get: any authenticated user; Revision.fromRequest looks the
\* row up, Revision.toXML parses what Revision.load reads from the file.  A
\* file that holds no complete document makes the parser raise.
GetRevision(u, revId) ==
    /\ IF ~(\E row \in revisions : row.revId = revId)
       THEN resp' = Response("getRevision", "NoSuchRevision")
       ELSE IF files[revId] = Truncated
       THEN resp' = Response("getRevision", "ServerError")
       ELSE resp' = [op |-> "getRevision", status |-> "ok", revId |-> revId,
                     prevId |-> (CHOOSE row \in revisions : row.revId = revId).prevId,
                     data |-> files[revId]]
    /\ UNCHANGED << courseVars, projVars, storeVars, req, pending, gradeVars >>

\* ------------------------------------------- requests waiting for a worker
AcceptRemoveTeacher(u, c, t) ==
    /\ Cardinality(pending) < NumReqs
    /\ pending' = pending \cup {[user |-> u, course |-> c, teacher |-> t]}
    /\ UNCHANGED << courseVars, projVars, storeVars, req, resp, gradeVars >>

HandleRemoveTeacher(rq) ==
    /\ rq \in pending
    /\ pending' = pending \ {rq}
    /\ RemoveTeacherBody(rq.user, rq.course, rq.teacher)

\* -------------------------------------------------------- specifications
\* Roster management on its own.
CourseNext ==
    \/ \E u \in Users : CreateCourse(u)
    \/ \E u, s \in Users, c \in Courses : AddStudent(u, c, s)
    \/ \E u, t \in Users, c \in Courses : AddTeacher(u, c, t)
    \/ \E u \in Users, c \in Courses : Enroll(u, c)
    \/ \E u, s \in Users, c \in Courses : RemoveStudent(u, c, s)
    \/ \E u, t \in Users, c \in Courses : RemoveTeacher(u, c, t)
    \/ \E u \in Users, c \in Courses : UnEnroll(u, c)
    \/ \E u \in Users, c \in Courses : ListStudents(u, c)

SpecCourse == Init /\ [][CourseNext]_vars

\* Roster management with RemoveTeacher requests queued before they run.
RaceNext ==
    \/ \E u \in Users : CreateCourse(u)
    \/ \E u, t \in Users, c \in Courses : AddTeacher(u, c, t)
    \/ \E u, t \in Users, c \in Courses : AcceptRemoveTeacher(u, c, t)
    \/ \E rq \in pending : HandleRemoveTeacher(rq)

SpecRace == Init /\ [][RaceNext]_vars

\* The sharing graph with loads and saves, one save at a time.
AccessNext ==
    \/ \E u \in Users : CreateCourse(u)
    \/ \E u, t \in Users, c \in Courses : AddTeacher(u, c, t)
    \/ \E u \in Users, c \in Courses : Enroll(u, c)
    \/ \E u \in Users, c \in Courses : UnEnroll(u, c)
    \/ \E u \in Users : CreateProject(u, 1)
    \/ \E u, n \in Users : ShareProject(u, 1, n)
    \/ \E u, t \in Users : UnShareProject(u, 1, t)
    \/ \E u \in Users, c \in Courses : ShareProjectWithStudents(u, 1, c)
    \/ \E u \in Users, c \in Courses : ShareProjectWithTeachers(u, 1, c)
    \/ \E u \in Users, c \in Courses : UnShareProjectWithStudents(u, 1, c)
    \/ \E u \in Users, c \in Courses : UnShareProjectWithTeachers(u, 1, c)
    \/ \E u \in Users, p \in Projects : LoadProject(u, p)
    \/ \E u \in Users, p \in Projects : SaveBegin(1, u, p, 1, NoName)
    \/ SaveStore(1)
    \/ SaveWrite(1)
    \/ SaveCommit(1)

SpecAccess == Init /\ [][AccessNext]_vars

\* Two projects side by side, project p created by user p: the requests
\* that name a project, one save at a time.
IsoNext ==
    \/ CreateCourse(1)
    \/ \E p \in Projects : CreateProject(p, p)
    \/ \E u \in Users, p \in Projects : UnCreateProject(u, p)
    \/ \E u, n \in Users, p \in Projects : ShareProject(u, p, n)
    \/ \E u, t \in Users, p \in Projects : UnShareProject(u, p, t)
    \/ \E u \in Users, p \in Projects : MakePublic(u, p)
    \/ \E u \in Users, p \in Projects : UnMakePublic(u, p)
    \/ \E u \in Users, p \in Projects, c \in Courses : ShareProjectWithStudents(u, p, c)
    \/ \E u \in Users, p \in Projects, c \in Courses : UnShareProjectWithStudents(u, p, c)
    \/ \E u \in Users, p \in Projects : SaveBegin(1, u, p, 1, 1)
    \/ SaveStore(1)
    \/ SaveWrite(1)
    \/ SaveCommit(1)

SpecIso == Init /\ [][IsoNext]_vars

\* The sharing graph of one course and one project with every removal.
ShareNext ==
    \/ \E u \in Users : CreateCourse(u)
    \/ \E u, s \in Users, c \in Courses : AddStudent(u, c, s)
    \/ \E u, t \in Users, c \in Courses : AddTeacher(u, c, t)
    \/ \E u \in Users, c \in Courses : Enroll(u, c)
    \/ \E u, s \in Users, c \in Courses : RemoveStudent(u, c, s)
    \/ \E u, t \in Users, c \in Courses : RemoveTeacher(u, c, t)
    \/ \E u \in Users, c \in Courses : UnEnroll(u, c)
    \/ \E u \in Users : CreateProject(u, 1)
    \/ \E u, n \in Users : ShareProject(u, 1, n)
    \/ \E u, t \in Users : UnShareProject(u, 1, t)
    \/ \E u \in Users, c \in Courses : ShareProjectWithStudents(u, 1, c)
    \/ \E u \in Users, c \in Courses : ShareProjectWithTeachers(u, 1, c)
    \/ \E u \in Users, c \in Courses : UnShareProjectWithStudents(u, 1, c)
    \/ \E u \in Users, c \in Courses : UnShareProjectWithTeachers(u, 1, c)

SpecShare == Init /\ [][ShareNext]_vars

\* Assignments and submissions around one course and one project.
GradeNext ==
    \/ \E u \in Users : CreateCourse(u)
    \/ \E u \in Users, c \in Courses : Enroll(u, c)
    \/ \E u \in Users : CreateProject(u, 1)
    \/ \E u, n \in Users : ShareProject(u, 1, n)
    \/ \E u, t \in Users : UnShareProject(u, 1, t)
    \/ \E u \in Users, c \in Courses : CreateAssignment(u, c)
    \/ \E u \in Users, a \in Assignments, p \in Projects : SubmitProject(u, a, p)
    \/ \E u \in Users, c \in Payloads : SaveBegin(1, u, 1, c, NoName)
    \/ SaveStore(1)
    \/ SaveWrite(1)
    \/ SaveCommit(1)

SpecGrade == Init /\ [][GradeNext]_vars

\* The revision store of one project under concurrent saves.
Next ==
    \/ \E u \in Users : CreateProject(u, 1)
    \/ \E u \in Users : UnCreateProject(u, 1)
    \/ \E r \in Reqs, u \in Users, c \in Payloads, n \in Names \cup {NoName} :
          SaveBegin(r, u, 1, c, n)
    \/ \E r \in Reqs : SaveStore(r)
    \/ \E r \in Reqs : SaveWrite(r)
    \/ \E r \in Reqs : SaveCommit(r)
    \/ \E u \in Users, id \in DOMAIN files : GetRevision(u, id)

Spec == Init /\ [][Next]_vars

\* The revision store when each request ends before the next one starts.
NoneInFlight == \A r \in Reqs : req[r].pc = "idle"

SeqNext ==
    \/ \E u \in Users, p \in Projects : NoneInFlight /\ CreateProject(u, p)
    \/ \E u \in Users, p \in Projects : NoneInFlight /\ UnCreateProject(u, p)
    \/ \E r \in Reqs, u \in Users, p \in Projects, c \in Payloads, n \in Names \cup {NoName} :
          NoneInFlight /\ SaveBegin(r, u, p, c, n)
    \/ \E r \in Reqs : SaveStore(r)
    \/ \E r \in Reqs : SaveWrite(r)
    \/ \E r \in Reqs : SaveCommit(r)

SpecSeq == Init /\ [][SeqNext]_vars

\* ================================================================ claims

\* ---- C1
\* C1 (as stated): when two save requests ran concurrently and computed the
\* same revision id, the revision was physically written exactly once and
\* both requests ended successfully.
C1_RaceSafety ==
    \A r1, r2 \in Reqs :
        ( /\ r1 # r2
          /\ Live(1)
          /\ req[r1].pc = "idle" /\ req[r2].pc = "idle"
          /\ req[r1].revId # NoHead
          /\ req[r1].revId = req[r2].revId )
        => /\ Count(nWrites, req[r1].revId) = 1
           /\ req[r1].status = "ok"
           /\ req[r2].status = "ok"

\* ---- C2
\* The read decision of section 4.3, over the sets of the sharing graph.
SpecCanRead(u, p) ==
    \/ u \in ListSet(owners[p]) \cup ListSet(members[p])
    \/ \E c \in ListSet(teacherShares[p]) : u \in ListSet(teachers[c])
    \/ \E c \in ListSet(studentShares[p]) :
           u \in ListSet(students[c]) \cup ListSet(teachers[c])

\* C2: for every user and every existing project, Project.canRead is true
\* exactly when the user is an owner or member, or teaches a course the
\* project is shared with the teachers of, or studies or teaches a course
\* the project is shared with the students of.
C2_CanReadExact ==
    \A u \in Users, p \in Projects :
        Live(p) => (Truthy(canRead(u, p)) <=> SpecCanRead(u, p))

\* A teacher who is no member reads a project through its students share.
C2_Witness ==
    \E u \in Users, c \in Courses :
        /\ Live(1)
        /\ ~InList(u, members[1]) /\ ~InList(u, owners[1])
        /\ ~InList(c, teacherShares[1]) /\ InList(c, studentShares[1])
        /\ InList(u, teachers[c]) /\ ~InList(u, students[c])
        /\ Truthy(canRead(u, 1))

\* ---- C3
\* C3: a save is let through exactly when the user is an owner or a member
\* of the project; any other user gets NotAuthorized, a project id that
\* resolves to no project gets NoSuchProject, and in both cases the
\* revisions, the files and every project row stay as they were.
C3_SaveAuthorized ==
    [][ \A u \in Users, p \in Projects :
          SaveBegin(1, u, p, 1, NoName) =>
            IF ~Live(p)
            THEN /\ req'[1] = Finished("NoSuchProject", NoHead)
                 /\ UNCHANGED << revisions, files, headId, sharedName >>
            ELSE IF u \notin ListSet(owners[p]) \cup ListSet(members[p])
            THEN /\ req'[1] = Finished("NotAuthorized", NoHead)
                 /\ UNCHANGED << revisions, files, headId, sharedName >>
            ELSE /\ req'[1].pc = "body"
                 /\ req'[1].status = "none" ]_vars

\* A save was refused on a project that has been saved before.
C3_Witness ==
    /\ Live(1)
    /\ nSaves[1] >= 1
    /\ Len(members[1]) = 2
    /\ req[1] = Finished("NotAuthorized", NoHead)

\* ---- C4
\* The user teaches a course the project is shared with the teachers of and
\* is neither owner nor member of the project.
TeacherReader(u, p) ==
    /\ Live(p)
    /\ ~InList(u, owners[p]) /\ ~InList(u, members[p])
    /\ \E c \in ListSet(teacherShares[p]) : InList(u, teachers[c])

\* C4 (as stated): such a user can read the project (canRead holds and a
\* load is answered with success) and cannot write it (a save is answered
\* with NotAuthorized).
C4_Asymmetry ==
    [][ \A u \in Users, p \in Projects :
          TeacherReader(u, p) =>
            /\ Truthy(canRead(u, p))
            /\ LoadProject(u, p) => resp'.status = "ok"
            /\ SaveBegin(1, u, p, 1, NoName) => req'[1].status = "NotAuthorized" ]_vars

\* ---- C5
\* C5: RemoveTeacher called by a teacher of a course whose teacher list has
\* one entry answers NotPermitted and leaves the list as it was; on a list
\* of two entries, removing one of them succeeds and leaves one entry.
C5_TeacherFloor ==
    [][ \A u, t \in Users, c \in Courses :
          ( RemoveTeacher(u, c, t) /\ c \in courseIds /\ InList(u, teachers[c]) ) =>
            /\ Len(teachers[c]) = 1 =>
                 /\ resp' = Response("removeTeacher", "NotPermitted")
                 /\ teachers' = teachers
            /\ ( Len(teachers[c]) = 2 /\ InList(t, teachers[c]) ) =>
                 /\ resp' = Response("removeTeacher", "ok")
                 /\ Len(teachers'[c]) = 1
                 /\ ListSet(teachers'[c]) \subseteq ListSet(teachers[c]) ]_vars

\* The last teacher of a course was refused.
C5_Witness ==
    /\ resp = Response("removeTeacher", "NotPermitted")
    /\ \E c \in courseIds : Len(teachers[c]) = 1

\* ---- C6
\* C6: every existing course has at least one teacher.
C6_TeacherNonEmpty == \A c \in courseIds : Len(teachers[c]) >= 1

\* A removal went through and left the course with its last teacher.
C6_Witness ==
    /\ resp = Response("removeTeacher", "ok")
    /\ \E c \in courseIds : Len(teachers[c]) = 1

\* ---- C7
\* C7: a queued RemoveTeacher request makes its floor test and its removal
\* against one and the same roster: it changes the roster only if that
\* roster had at least two entries, it answers success exactly when it
\* changed the roster, and no course is left without a teacher.
C7_RemoveAtomic ==
    [][ \A rq \in pending :
          HandleRemoveTeacher(rq) =>
            /\ teachers' # teachers => Len(teachers[rq.course]) >= 2
            /\ resp'.status = "ok" <=> teachers' # teachers
            /\ \A c \in courseIds : Len(teachers'[c]) >= 1 ]_vars

\* Of two queued removals of different teachers of a two-teacher course one
\* has gone through and the other is still queued.
C7_Witness ==
    \E rq \in pending :
        /\ resp = Response("removeTeacher", "ok")
        /\ Len(teachers[rq.course]) = 1
        /\ InList(rq.teacher, teachers[rq.course])
        /\ InList(rq.user, teachers[rq.course])

\* ---- C8
\* C8: when requests run one after another, get_or_create reports created
\* for a pair (prevId, payload) exactly when no earlier call did; a later
\* call writes no file and no row and hands back the existing revision,
\* which becomes the head of the calling project.
C8_Idempotent ==
    [][ \A r \in Reqs :
          SaveStore(r) =>
            LET rq == Hashed(req[r])
            IN  IF Count(nWrites, rq.revId) = 0
                THEN /\ Count(nWrites', rq.revId) = 1
                     /\ req'[r].pc = "write"
                ELSE /\ nWrites' = nWrites
                     /\ files' = files
                     /\ revisions' = revisions
                     /\ req'[r] = Finished("ok", rq.revId)
                     /\ headId'[rq.proj] = rq.revId ]_vars

\* Two projects have the same head, which was written once.
C8_Witness ==
    /\ Live(1) /\ Live(2)
    /\ headId[1] # NoHead
    /\ headId[1] = headId[2]
    /\ Count(nWrites, headId[1]) = 1
    /\ files[headId[1]] # Truncated

\* ---- C9
\* The number of prevId links from id back to formatHash(0) through the
\* rows, or -1 when a link leads to no row.
RECURSIVE Walk(_, _, _)
Walk(id, rows, fuel) ==
    IF id = ROOT THEN 0
    ELSE IF fuel = 0 \/ ~(\E row \in rows : row.revId = id) THEN -1
    ELSE LET row == CHOOSE x \in rows : x.revId = id
             n == Walk(row.prevId, rows, fuel - 1)
         IN  IF n < 0 THEN -1 ELSE n + 1

ChainSteps(p) ==
    IF headId[p] = NoHead THEN 0
    ELSE Walk(headId[p], revisions, Cardinality(revisions))

\* C9 (as stated): the links from the head of every project lead to the
\* root sentinel, in as many steps as saves of the project have succeeded.
C9_ChainEqualsSaves ==
    \A p \in Projects : Live(p) => ChainSteps(p) = nSaves[p]

\* C9 (amended): the links from the head of every project lead to the root
\* sentinel with none missing; the number of steps is at least one once a
\* save has succeeded and never more than the number of successful saves.
C9_ChainBounded ==
    \A p \in Projects :
        Live(p) =>
            /\ ChainSteps(p) >= 0
            /\ ChainSteps(p) <= nSaves[p]
            /\ nSaves[p] >= 1 => ChainSteps(p) >= 1
            /\ nSaves[p] = 0 => headId[p] = NoHead

\* Two saves of the project succeeded and its head is one step from the root.
C9_Witness ==
    /\ Live(1)
    /\ nSaves[1] = 2
    /\ ChainSteps(1) = 1

\* ---- C10
\* The ids on the chain from id back to the root, id included.
RECURSIVE Ancestry(_, _, _)
Ancestry(id, rows, fuel) ==
    IF id = ROOT \/ fuel = 0 \/ ~(\E row \in rows : row.revId = id) THEN {id}
    ELSE LET row == CHOOSE x \in rows : x.revId = id
         IN  {id} \cup Ancestry(row.prevId, rows, fuel - 1)

\* Worker r ends a save with success in this step.
SaveSucceeds(r) ==
    /\ req[r].pc \in {"body", "write", "written"}
    /\ req'[r].pc = "idle"
    /\ req'[r].status = "ok"

\* C10 (as stated): whenever the head of a project changes from h to h',
\* h was unset or h is on the chain of h'.
C10_HeadForward ==
    [][ \A p \in Projects :
          ( Live(p) /\ projStatus'[p] = "live" /\ headId'[p] # headId[p] ) =>
            \/ headId[p] = NoHead
            \/ headId[p] \in Ancestry(headId'[p], revisions', Cardinality(revisions')) ]_vars

\* C10 (amended): the head of a project changes only when a save of it
\* succeeds (or the project is deleted); the new head is a revision whose
\* prevId is the head that save loaded when it started (the root sentinel
\* if there was none), so the head being replaced is on the chain of the new
\* head whenever it still is the head the save loaded.
C10_HeadParent ==
    [][ /\ \A r \in Reqs :
              SaveSucceeds(r) =>
                LET p == req[r].proj
                    loaded == req[r].head
                    parent == IF loaded = NoHead THEN ROOT ELSE loaded
                IN  /\ headId'[p] = req'[r].revId
                    /\ \E row \in revisions' :
                           row.revId = headId'[p] /\ row.prevId = parent
                    /\ headId[p] = loaded =>
                         \/ headId[p] = NoHead
                         \/ headId[p] \in Ancestry(headId'[p], revisions',
                                                   Cardinality(revisions'))
                    /\ \A q \in Projects \ {p} : headId'[q] = headId[q]
        /\ \A p \in Projects :
              headId'[p] # headId[p] =>
                \/ projStatus'[p] = "deleted"
                \/ \E r \in Reqs : SaveSucceeds(r) /\ req[r].proj = p ]_vars

\* The head is a first revision and another first revision is stored: the
\* head moved from one to the other.
C10_Witness ==
    /\ Live(1)
    /\ nSaves[1] = 2
    /\ \E row \in revisions :
           /\ row.prevId = ROOT
           /\ row.revId # headId[1]
           /\ \E other \in revisions : other.revId = headId[1] /\ other.prevId = ROOT

\* ---- C11
\* Worker r ends a save in this step, with or without success.
SaveEnds(r) ==
    /\ req[r].pc \in {"body", "write", "written"}
    /\ req'[r].pc = "idle"

\* Worker o holds, or has ended with success, a save of another payload on
\* the head that the save of worker r loaded.
RacesWith(r, o) ==
    /\ o # r
    /\ \/ /\ req[o].pc # "idle"
          /\ req[o].proj = req[r].proj
          /\ req[o].head = req[r].head
          /\ req[o].payload # req[r].payload
       \/ /\ req[o].pc = "idle"
          /\ req[o].status = "ok"
          /\ \E x \in Payloads \ {req[r].payload} :
                 req[o].revId = Hash(PrevIdOf(req[r].head), x)

FirstOfTwo(r) == req[r].head = NoHead

SecondOfTwo(r) == req[r].head = Hash(ROOT, req[r].payload)

\* C12 (as stated): the first save makes Hash(ROOT, c) with created=true and
\* the head becomes that revision; the second save of the same bytes takes
\* the first revision as prevId, makes a different id with created=true, and
\* the head becomes that second revision, whose prevId is the first.
C12_TwiceCreated ==
    [][ \A r \in Reqs :
          ( (FirstOfTwo(r) \/ SecondOfTwo(r)) /\ (SaveStore(r) \/ SaveCommit(r)) ) =>
            LET rq == Hashed(req[r])
            IN  /\ rq.prevId = (IF FirstOfTwo(r) THEN ROOT ELSE req[r].head)
                /\ rq.revId # rq.prevId /\ rq.revId # req[r].head
                /\ SaveStore(r) =>
                     /\ req'[r].pc = "write"
                     /\ req'[r].revId = rq.revId
                /\ SaveCommit(r) =>
                     /\ req'[r] = Finished("ok", rq.revId)
                     /\ headId'[rq.proj] = rq.revId
                     /\ [revId |-> rq.revId, prevId |-> rq.prevId] \in revisions' ]_vars

\* C12 (amended): as stated, except that created is true exactly when the
\* store does not hold the revision yet; when it does (another project has
\* saved the same bytes at the same place of its chain) the save writes
\* nothing, created is false, and the head still becomes that revision.
C12_TwiceNoCollision ==
    [][ \A r \in Reqs :
          ( (FirstOfTwo(r) \/ SecondOfTwo(r)) /\ (SaveStore(r) \/ SaveCommit(r)) ) =>
            LET rq == Hashed(req[r])
                row == [revId |-> rq.revId, prevId |-> rq.prevId]
            IN  /\ rq.prevId = (IF FirstOfTwo(r) THEN ROOT ELSE req[r].head)
                /\ rq.revId # rq.prevId /\ rq.revId # req[r].head
                /\ ( SaveStore(r) /\ row \notin revisions ) =>
                     /\ req'[r].pc = "write"
                     /\ req'[r].revId = rq.revId
                     /\ Count(nWrites', rq.revId) = Count(nWrites, rq.revId) + 1
                /\ ( SaveStore(r) /\ row \in revisions ) =>
                     /\ req'[r] = Finished("ok", rq.revId)
                     /\ headId'[rq.proj] = rq.revId
                     /\ UNCHANGED << revisions, files, nWrites >>
                /\ SaveCommit(r) =>
                     /\ req'[r] = Finished("ok", rq.revId)
                     /\ headId'[rq.proj] = rq.revId
                     /\ row \in revisions' ]_vars

\* Project 1 was saved twice with the same bytes, and its first revision is
\* shared with project 2, which holds it as head; it was written once.
C12_Witness ==
    \E c \in Payloads :
        /\ Live(1) /\ Live(2)
        /\ nSaves[1] = 2
        /\ headId[1] = <<0, c, c>>
        /\ headId[2] = <<0, c>>
        /\ [revId |-> <<0, c, c>>, prevId |-> <<0, c>>] \in revisions
        /\ [revId |-> <<0, c>>, prevId |-> ROOT] \in revisions
        /\ Count(nWrites, <<0, c>>) = 1

\* ---- C13
\* C13 (as stated): a save that ends with success leaves the head at the
\* revision get_or_create returned, leaves sharedName at the given value
\* when one was given and as it was when none was given, and answers with
\* the revision id, whether the revision was created or found.
C13_SaveEffect ==
    [][ \A r \in Reqs :
          SaveSucceeds(r) =>
            LET rq == Hashed(req[r])
            IN  /\ req'[r].revId = rq.revId
                /\ [revId |-> rq.revId, prevId |-> rq.prevId] \in revisions'
                /\ headId'[rq.proj] = rq.revId
                /\ rq.name # NoName => sharedName'[rq.proj] = rq.name
                /\ rq.name = NoName => sharedName'[rq.proj] = sharedName[rq.proj] ]_vars

\* ---- C14
\* C14 (as stated): a load of an existing project is answered NotAuthorized
\* exactly when canRead is false for the user, and is let through for every
\* user for whom canRead is true, whatever the way the access comes about.
C14_LoadByCanRead ==
    [][ \A u \in Users, p \in Projects :
          ( LoadProject(u, p) /\ Live(p) ) =>
            /\ resp'.status = "NotAuthorized" <=> ~Truthy(canRead(u, p))
            /\ Truthy(canRead(u, p)) => resp'.status = "ok" ]_vars

\* ---- C15
\* C15 (as stated): a load, by a user allowed to load, of a project that was
\* created and never saved is answered NoSuchRevision and not with success.
C15_LoadUnsetHead ==
    [][ \A u \in Users, p \in Projects :
          ( LoadProject(u, p) /\ Live(p) /\ InList(u, members[p])
            /\ headId[p] = NoHead ) =>
            /\ resp'.status = "NoSuchRevision"
            /\ resp'.status # "ok" ]_vars

\* ---- C16
\* C16 (as stated): each of the six removals, called by a user allowed to
\* call it for something that is not in the list it removes from, answers
\* UserLogicError and leaves that list as it was.
C16_RemoveAbsent ==
    [][ /\ \A u \in Users, c \in courseIds :
              ( UnEnroll(u, c) /\ ~InList(u, students[c]) ) =>
                  resp'.status = "UserLogicError" /\ students' = students
        /\ \A u, x \in Users, c \in courseIds :
              ( RemoveStudent(u, c, x) /\ InList(u, teachers[c])
                /\ ~InList(x, students[c]) ) =>
                  resp'.status = "UserLogicError" /\ students' = students
        /\ \A u, x \in Users, c \in courseIds :
              ( RemoveTeacher(u, c, x) /\ InList(u, teachers[c])
                /\ Len(teachers[c]) >= 2 /\ ~InList(x, teachers[c]) ) =>
                  resp'.status = "UserLogicError" /\ teachers' = teachers
        /\ \A u, x \in Users, p \in Projects :
              ( UnShareProject(u, p, x) /\ Live(p) /\ InList(u, members[p])
                /\ ~InList(x, members[p]) ) =>
                  resp'.status = "UserLogicError" /\ members' = members
        /\ \A u \in Users, p \in Projects, c \in courseIds :
              ( UnShareProjectWithStudents(u, p, c) /\ Live(p)
                /\ InList(u, members[p]) /\ ~InList(c, studentShares[p]) ) =>
                  resp'.status = "UserLogicError" /\ studentShares' = studentShares
        /\ \A u \in Users, p \in Projects, c \in courseIds :
              ( UnShareProjectWithTeachers(u, p, c) /\ Live(p)
                /\ InList(u, members[p]) /\ ~InList(c, teacherShares[p]) ) =>
                  resp'.status = "UserLogicError" /\ teacherShares' = teacherShares ]_vars

\* ---- C17
\* C17: unshareProject naming an owner of the project is rejected and leaves
\* members and owners as they were; the owners of a project never change
\* while it exists; every existing project has at least one owner.
C17_OwnerKept ==
    /\ [](\A p \in Projects : Live(p) => Len(owners[p]) >= 1)
    /\ [][ /\ \A u, t \in Users, p \in Projects :
                 ( UnShareProject(u, p, t) /\ Live(p) /\ InList(t, owners[p]) ) =>
                     /\ resp' = Response("unshareProject", "NotAuthorized")
                     /\ members' = members
                     /\ owners' = owners
           /\ \A p \in Projects :
                 ( Live(p) /\ projStatus'[p] = "live" ) =>
                     /\ owners'[p] = owners[p]
                     /\ ListSet(owners[p]) \subseteq ListSet(members'[p]) ]_vars

\* Every user is a member of the saved project, and a member's request to
\* remove the owner has been rejected.
C17_Witness ==
    /\ Live(1)
    /\ nSaves[1] >= 1
    /\ ListSet(members[1]) = Users
    /\ Len(owners[1]) = 1
    /\ resp = Response("unshareProject", "NotAuthorized")

\* ---- C18
\* The bytes that were hashed into a revision id.
PayloadOf(id) == id[Len(id)]

\* C18 (as stated): every read of a revision id that exists, at any point of
\* any interleaving with saves, is answered with exactly the payload stored
\* for that id, never with an empty or partial one.
C18_NoTornRead ==
    [][ \A u \in Users, id \in DOMAIN files :
          ( GetRevision(u, id) /\ id \in RevIds ) =>
            /\ resp'.status = "ok"
            /\ resp'.data = PayloadOf(id) ]_vars

C20_HashInvariant ==
    \A row \in revisions :
        /\ row.revId \in DOMAIN files
        /\ row.revId = Hash(row.prevId, files[row.revId])
        /\ row.prevId = ROOT \/ row.prevId \in RevIds

\* ---- C21
\* C21: addStudent, addTeacher, removeStudent, removeTeacher and
\* listStudents called on an existing course by a user who is not one of
\* its teachers answer NotAuthorized and leave the teachers and the students
\* of every course as they were.
C21_RosterGuard ==
    [][ \A u, x \in Users, c \in courseIds :
          ( /\ ~InList(u, teachers[c])
            /\ \/ AddStudent(u, c, x)
               \/ AddTeacher(u, c, x)
               \/ RemoveStudent(u, c, x)
               \/ RemoveTeacher(u, c, x)
               \/ ListStudents(u, c) ) =>
            /\ resp'.status = "NotAuthorized"
            /\ teachers' = teachers
            /\ students' = students ]_vars

\* A student of a course asked for the removal of a student and was refused.
C21_Witness ==
    /\ resp = Response("removeStudent", "NotAuthorized")
    /\ \E c \in courseIds :
           /\ Len(students[c]) >= 1
           /\ \E u \in Users : InList(u, students[c]) /\ ~InList(u, teachers[c])

\* ---- C22
\* C22 (as stated): each of the six sharing mutations called on an existing
\* project by a user who is not a member or owner of it answers
\* NotAuthorized and leaves the members and the course shares of the project
\* as they were.
C22_SharingGuard ==
    [][ \A u, x \in Users, p \in Projects, c \in Courses :
          ( /\ Live(p)
            /\ ~InList(u, members[p]) /\ ~InList(u, owners[p])
            /\ \/ ShareProject(u, p, x)
               \/ UnShareProject(u, p, x)
               \/ ShareProjectWithStudents(u, p, c)
               \/ ShareProjectWithTeachers(u, p, c)
               \/ UnShareProjectWithStudents(u, p, c)
               \/ UnShareProjectWithTeachers(u, p, c) ) =>
            /\ resp'.status = "NotAuthorized"
            /\ UNCHANGED << members, owners, teacherShares, studentShares >> ]_vars

\* ---- C23
\* C23 (as stated): a request that ends in a failure leaves every table as
\* it was, and a save that ends in a failure leaves no file in the storage
\* directory for a revision id that has no committed row.
C23_FailureLeavesNothing ==
    [][ /\ \A r \in Reqs :
              ( SaveEnds(r) /\ req'[r].status # "ok" ) =>
                /\ UNCHANGED << revisions, projVars, courseVars, gradeVars >>
                /\ req'[r].revId \in DOMAIN files' => req'[r].revId \in RevIds'
        /\ ( resp' # resp /\ resp'.status # "ok" ) =>
              UNCHANGED << revisions, files, projVars, courseVars, gradeVars >> ]_vars

\* ---- C24
\* C24 (as stated): submitProject by a member of a live project who is
\* enrolled in a course records a submission whose revisionId is the head of
\* the project at that moment, whose projectId, submitter and members are
\* those of the request, and no later step changes or drops a recorded
\* submission.
C24_SubmitSnapshot ==
    [][ /\ \A u \in Users, a \in Assignments, p \in Projects :
              ( /\ SubmitProject(u, a, p)
                /\ Live(p)
                /\ InList(u, members[p])
                /\ \E c \in courseIds : InList(u, students[c]) ) =>
                \E s \in submissions' :
                    /\ s.revisionId = headId[p]
                    /\ s.projectId = p
                    /\ s.submitter = u
                    /\ s.members = ListSet(members[p])
        /\ submissions \subseteq submissions' ]_vars

\* ---- C25
\* C25: in every reachable state the owners of each existing project are
\* among its members, so the test "user in project.members" accepts exactly
\* the users that are owners or members.
C25_OwnersAreMembers ==
    \A p \in Projects :
        Live(p) =>
            /\ ListSet(owners[p]) \subseteq ListSet(members[p])
            /\ \A u \in Users :
                   IsMember(u, p) <=>
                       u \in ListSet(owners[p]) \cup ListSet(members[p])

\* The project has been shared with a user who is not an owner.
C25_Witness ==
    /\ Live(1)
    /\ resp = Response("shareProject", "ok")
    /\ Len(owners[1]) = 1
    /\ ListSet(members[1]) # ListSet(owners[1])

\* ---- C26
\* C26 (as stated): in every reachable state, the states between the steps
\* of overlapping saves included, the file of every committed revision row
\* and of every head holds the full payload the id was computed from.
C26_PayloadPresent ==
    /\ \A id \in RevIds :
           /\ id \in DOMAIN files
           /\ files[id] = PayloadOf(id)
    /\ \A p \in Projects :
           ( Live(p) /\ headId[p] # NoHead ) =>
               /\ headId[p] \in DOMAIN files
               /\ files[headId[p]] = PayloadOf(headId[p])

\* ---- C27
\* What the claim lists of a project: head, sharedName, public flag, owners,
\* members and course shares, and the project row itself.
SameProject(p) ==
    /\ projStatus'[p] = projStatus[p]
    /\ headId'[p] = headId[p]
    /\ sharedName'[p] = sharedName[p]
    /\ public'[p] = public[p]
    /\ owners'[p] = owners[p]
    /\ members'[p] = members[p]
    /\ teacherShares'[p] = teacherShares[p]
    /\ studentShares'[p] = studentShares[p]

\* C27: a request naming project p made by a user who is not a member of p
\* (save, shareProject, unshareProject, makePublic, unmakePublic,
\* uncreateProject, the four course sharing requests), and every step of a
\* save made to another project, leaves head, sharedName, public flag,
\* owners, members and course shares of p as they were.
C27_Isolation ==
    [][ \A p \in Projects :
          Live(p) =>
            /\ \A u, x \in Users, c \in Courses :
                 ( /\ ~InList(u, members[p])
                   /\ \/ ShareProject(u, p, x)
                      \/ UnShareProject(u, p, x)
                      \/ MakePublic(u, p)
                      \/ UnMakePublic(u, p)
                      \/ UnCreateProject(u, p)
                      \/ ShareProjectWithStudents(u, p, c)
                      \/ ShareProjectWithTeachers(u, p, c)
                      \/ UnShareProjectWithStudents(u, p, c)
                      \/ UnShareProjectWithTeachers(u, p, c)
                      \/ \E r \in Reqs, n \in Names \cup {NoName} :
                            SaveBegin(r, u, p, 1, n) /\ req'[r].pc = "idle" ) =>
                   SameProject(p)
            /\ \A r \in Reqs :
                 ( /\ req[r].pc # "idle"
                   /\ req[r].proj # p
                   /\ SaveStore(r) \/ SaveWrite(r) \/ SaveCommit(r) ) =>
                   SameProject(p) ]_vars

\* Two projects of different owners: the second was saved twice from the
\* revision that is still the head of the first, and a request by a user
\* outside a project to publish it was refused.
C27_Witness ==
    /\ Live(1) /\ Live(2)
    /\ ListSet(members[1]) \cap ListSet(members[2]) = {}
    /\ headId[1] = Hash(ROOT, 1)
    /\ headId[2] = Hash(Hash(ROOT, 1), 1)
    /\ \E p \in Projects : public[p] = "True"
    /\ resp = Response("makePublic", "NotAuthorized")

\* ---- C28
\* C28: enroll, addStudent, addTeacher and shareProject naming a user who is
\* already in the collection leave the collection equal to what it was, and
\* after a successful unenroll, removeStudent, removeTeacher or
\* unshareProject the removed user is not in the collection.
C28_SetLike ==
    [][ /\ \A u, x \in Users, c \in courseIds :
              /\ ( Enroll(u, c) /\ InList(u, students[c]) ) =>
                     students'[c] = students[c]
              /\ ( AddStudent(u, c, x) /\ InList(x, students[c]) ) =>
                     students'[c] = students[c]
              /\ ( AddTeacher(u, c, x) /\ InList(x, teachers[c]) ) =>
                     teachers'[c] = teachers[c]
              /\ ( UnEnroll(u, c) /\ resp'.status = "ok" ) =>
                     ~InList(u, students'[c])
              /\ ( RemoveStudent(u, c, x) /\ resp'.status = "ok" ) =>
                     ~InList(x, students'[c])
              /\ ( RemoveTeacher(u, c, x) /\ resp'.status = "ok" ) =>
                     ~InList(x, teachers'[c])
        /\ \A u, x \in Users, p \in Projects :
              Live(p) =>
                /\ ( ShareProject(u, p, x) /\ InList(x, members[p]) ) =>
                       members'[p] = members[p]
                /\ ( UnShareProject(u, p, x) /\ resp'.status = "ok" ) =>
                       ~InList(x, members'[p]) ]_vars

\* A course with every user enrolled and a project whose only member is its
\* owner, just after a shareProject request was answered with success: the
\* request named the owner.
C28_Witness ==
    /\ Live(1)
    /\ Len(members[1]) = 1
    /\ resp = Response("shareProject", "ok")
    /\ \E c \in courseIds : ListSet(students[c]) = Users

\* ---- C29
\* C29 (as stated): no request made by a user who is neither owner nor
\* member of an existing project changes whether canRead(user, project)
\* holds for that user.
C29_NoSelfGrant ==
    [][ \A u, x \in Users, p \in Projects, c \in Courses :
          ( /\ Live(p)
            /\ ~InList(u, members[p]) /\ ~InList(u, owners[p])
            /\ \/ CreateCourse(u)
               \/ AddTeacher(u, c, x)
               \/ Enroll(u, c)
               \/ UnEnroll(u, c)
               \/ ShareProject(u, p, x)
               \/ UnShareProject(u, p, x)
               \/ ShareProjectWithStudents(u, p, c)
               \/ ShareProjectWithTeachers(u, p, c)
               \/ UnShareProjectWithStudents(u, p, c)
               \/ UnShareProjectWithTeachers(u, p, c)
               \/ LoadProject(u, p)
               \/ SaveBegin(1, u, p, 1, NoName) ) =>
            Truthy(canRead(u, p)') = Truthy(canRead(u, p)) ]_vars

====
